---------------------------- MODULE Spec2Model ----------------------------
(***************************************************************************)
(* A model of "Face Verification/evaluation.py": get_ranks, compute_MCC,   *)
(* perform_interpolation, compute_Weighted_AUC and perform_evaluation.     *)
(*                                                                         *)
(* Conventions                                                             *)
(*   - a numpy array is a sequence; numpy index i is position i + 1, and   *)
(*     every index the code stores (order, ranks, previous_index, ...) is  *)
(*     kept as the 0-based number numpy holds;                             *)
(*   - a float is an exact rational <<n, d>>, d > 0, in lowest terms, so   *)
(*     == on floats is equality of the pairs; rounding is not modelled;    *)
(*   - a Python exception ends the function: pc becomes "raised".          *)
(* Each function has a specification of its own (SpecRanks, SpecMcc,       *)
(* SpecInterp, SpecWauc, SpecEval); the variables of the other functions   *)
(* stay at their idle values.                                              *)
(***************************************************************************)
EXTENDS Integers, Sequences, FiniteSets

VARIABLES
    pc,                 \* position in the function being run
    input_array,        \* get_ranks: argument
    order,              \* get_ranks: line 21
    ranks,              \* get_ranks: line 22 / compute_MCC line 39 / perform_evaluation line 214
    x_array,            \* perform_interpolation: argument, rebound on line 85
    y_array,            \* perform_interpolation: argument, rebound on line 84
    threshold_array,    \* perform_interpolation: argument / compute_MCC line 42
    threshold_index,    \* perform_interpolation: iterations of the loop of line 70 completed
    call,               \* perform_interpolation: 1 in the first call, 2 when called on its own output
    first_return,       \* perform_interpolation: what the first call returned
    y_true,             \* compute_Weighted_AUC, compute_MCC: argument
    y_score,            \* compute_Weighted_AUC, compute_MCC: argument
    weight_distribution,\* compute_Weighted_AUC: argument
    weight_num,         \* compute_Weighted_AUC: line 103
    evenly_spaced_thresholds, \* compute_Weighted_AUC: line 104
    fpr,                \* compute_Weighted_AUC: lines 107, 108
    tpr,                \* compute_Weighted_AUC: lines 107, 108
    area_array,         \* compute_Weighted_AUC: line 121, filled on line 150
    lowest_record_index,\* compute_Weighted_AUC: lines 122, 153
    area_index,         \* compute_Weighted_AUC: iterations of the loop of line 123 completed
    result,             \* compute_Weighted_AUC, compute_MCC: the value returned
    threshold_num,      \* compute_MCC: argument
    MCC_array,          \* compute_MCC: line 48
    folder,             \* perform_evaluation: the csv files of the submissions folder, by path
    groundtruth_label,  \* perform_evaluation: lines 185-186
    submission_file_path_list, \* perform_evaluation: line 190
    file_index,         \* perform_evaluation: iterations of the loop of line 193 completed
    submission_file_name_list, \* perform_evaluation: lines 191, 209
    score_list,         \* perform_evaluation: lines 192, 210
    current_index,      \* perform_evaluation: iterations of the loop of line 215 completed
    printed             \* perform_evaluation: the lines printed on lines 217-218

rvars == <<input_array, order, ranks>>
rvars_rest == <<input_array, order>>
ivars == <<x_array, y_array, threshold_array, threshold_index, call, first_return>>
wvars == <<y_true, y_score, weight_distribution, weight_num, evenly_spaced_thresholds,
           fpr, tpr, area_array, lowest_record_index, area_index, result>>
mvars == <<threshold_num, MCC_array>>
evars == <<folder, groundtruth_label, submission_file_path_list, file_index,
           submission_file_name_list, score_list, current_index, printed>>
vars == <<pc, rvars, ivars, wvars, mvars, evars>>

-----------------------------------------------------------------------------
(* Bounds of the model *)
MaxLen == 3         \* get_ranks: longest input array
MaxCurveLen == 3    \* perform_interpolation: most points of the input curve
MaxTargets == 2     \* perform_interpolation: most thresholds
MaxSamples == 3     \* compute_Weighted_AUC: most samples
MaxBands == 5       \* compute_Weighted_AUC: longest weight_distribution
MaxThresholdNum == 5 \* compute_MCC: largest threshold_num besides the default
LargeSamples == 997 \* compute_MCC: samples of the large input
MaxFiles == 3       \* perform_evaluation: most csv files in the folder

-----------------------------------------------------------------------------
(* Exact rationals *)
Abs(i) == IF i < 0 THEN -i ELSE i

RECURSIVE GCD(_, _)
GCD(a, b) == IF b = 0 THEN a ELSE GCD(b, a % b)

Norm(n, d) ==
    LET s == IF d < 0 THEN -1 ELSE 1
        g == GCD(Abs(n), Abs(d))
    IN  <<(s * n) \div g, (s * d) \div g>>

R(i) == <<i, 1>>
RAdd(a, b) == Norm(a[1] * b[2] + b[1] * a[2], a[2] * b[2])
RSub(a, b) == Norm(a[1] * b[2] - b[1] * a[2], a[2] * b[2])
RMul(a, b) == Norm(a[1] * b[1], a[2] * b[2])
RDiv(a, b) == Norm(a[1] * b[2], a[2] * b[1])
RLt(a, b) == a[1] * b[2] < b[1] * a[2]
RLe(a, b) == a[1] * b[2] <= b[1] * a[2]

SeqsUpTo(S, n) == UNION {[1..k -> S] : k \in 0..n}
Range(s) == {s[i] : i \in 1..Len(s)}

-----------------------------------------------------------------------------
(* numpy.ndarray.argsort(), default kind="quicksort": the indices that sort
   the array ascending.  The sort is not stable, so the order of equal
   elements is any the build's sort produces: every sorting permutation is
   an outcome.  With distinct elements there is exactly one, and for a
   strictly ascending array it is 0, 1, ..., n-1. *)
IsSortingOrder(a, p) ==
    /\ Len(p) = Len(a)
    /\ Range(p) = 0..(Len(a) - 1)
    /\ \A k \in 1..(Len(a) - 1) : ~RLt(a[p[k + 1] + 1], a[p[k] + 1])

ArgsortOutcomes(a) ==
    LET n == Len(a)
        ascending == \A k \in 1..(n - 1) : RLt(a[k], a[k + 1])
        pos == [i \in 1..n |->
                  Cardinality({j \in 1..n : RLt(a[j], a[i]) \/ (a[j] = a[i] /\ j < i)})]
        stable == [k \in 1..n |-> (CHOOSE i \in 1..n : pos[i] = k - 1) - 1]
        tied == \E i \in 1..n : \E j \in (i + 1)..n : a[i] = a[j]
    IN  IF ascending THEN {[k \in 1..n |-> k - 1]}
        ELSE IF ~tied THEN {stable}
        ELSE {p \in [1..n -> 0..(n - 1)] : IsSortingOrder(a, p)}

-----------------------------------------------------------------------------
(* get_ranks, lines 12-23 *)
ScoreValues == {R(1), R(2), R(3)}

RanksInputs == SeqsUpTo(ScoreValues, MaxLen)

IdleRanks == input_array = <<>> /\ order = <<>>
IdleInterp ==
    /\ x_array = <<>> /\ y_array = <<>> /\ threshold_index = 0
    /\ call = 0 /\ first_return = <<>>

IdleWauc ==
    /\ y_true = <<>> /\ y_score = <<>> /\ weight_distribution = <<>>
    /\ weight_num = 0 /\ evenly_spaced_thresholds = <<>>
    /\ fpr = <<>> /\ tpr = <<>> /\ area_array = <<>>
    /\ lowest_record_index = 0 /\ area_index = 0 /\ result = <<>>

IdleMcc == threshold_num = 0 /\ MCC_array = <<>>

IdleEval ==
    /\ folder = <<>> /\ groundtruth_label = <<>> /\ submission_file_path_list = <<>>
    /\ file_index = 0 /\ submission_file_name_list = <<>> /\ score_list = <<>>
    /\ current_index = 0 /\ printed = <<>>

InitRanks ==
    /\ pc = "ranks_order"
    /\ input_array \in RanksInputs
    /\ order = <<>>
    /\ ranks = <<>>
    /\ threshold_array = <<>>
    /\ IdleInterp /\ IdleWauc /\ IdleMcc /\ IdleEval

\* line 21: order = input_array.argsort()
GetRanksOrder ==
    /\ pc = "ranks_order"
    /\ order' \in ArgsortOutcomes(input_array)
    /\ pc' = "ranks_ranks"
    /\ UNCHANGED <<input_array, ranks, ivars, wvars, mvars, evars>>

\* a get_ranks that returns the sorting order itself
SecondArgsort_skipped(o) == {o}

\* lines 22-23: ranks = order.argsort(); return ranks
SecondArgsort(o) == ArgsortOutcomes([k \in 1..Len(o) |-> R(o[k])])

GetRanksRanks ==
    /\ pc = "ranks_ranks"
    /\ ranks' \in SecondArgsort(order)
    /\ pc' = "ranks_done"
    /\ UNCHANGED <<input_array, order, ivars, wvars, mvars, evars>>

\* get_ranks as one call: every array it can return
get_ranks(a) == UNION {SecondArgsort(o) : o \in ArgsortOutcomes(a)}

NextRanks == GetRanksOrder \/ GetRanksRanks

SpecRanks == InitRanks /\ [][NextRanks]_vars

-----------------------------------------------------------------------------
(* perform_interpolation, lines 57-87 *)
Max(S) == CHOOSE m \in S : \A o \in S : o <= m

\* numpy.insert(arr, index, value)
Insert(arr, index, value) ==
    SubSeq(arr, 1, index) \o <<value>> \o SubSeq(arr, index + 1, Len(arr))

\* a perform_interpolation that never skips a threshold
AlreadyIn_never(y, threshold) == FALSE

\* line 72: np.sum(y_array == threshold) > 0
AlreadyIn(y, threshold) == \E i \in 1..Len(y) : y[i] = threshold

\* line 77: np.argwhere(y_array < threshold)
Below(y, threshold) == {i \in 0..(Len(y) - 1) : RLt(y[i + 1], threshold)}

\* line 77: previous_index = np.max(np.argwhere(y_array < threshold))
PreviousIndex(y, threshold) == Max(Below(y, threshold))

\* line 77 raises ValueError on an empty argwhere; line 82 raises IndexError
\* when following_index is past the end of the arrays
LookupRaises(x, y, threshold) ==
    \/ Below(y, threshold) = {}
    \/ PreviousIndex(y, threshold) + 1 >= Len(x)
    \/ PreviousIndex(y, threshold) + 1 >= Len(y)

\* an interpolation that starts from the following point's x
InterpolatedValue_from_following(x, y, threshold, previous_index, following_index) ==
    RAdd(RDiv(RMul(RSub(threshold, y[previous_index + 1]),
                   RSub(x[following_index + 1], x[previous_index + 1])),
              RSub(y[following_index + 1], y[previous_index + 1])),
         x[following_index + 1])

\* lines 82-83.  The divisor is never 0: y[following] is not below the
\* threshold and is not the threshold, y[previous] is below it.
InterpolatedValue(x, y, threshold, previous_index, following_index) ==
    RAdd(RDiv(RMul(RSub(threshold, y[previous_index + 1]),
                   RSub(x[following_index + 1], x[previous_index + 1])),
              RSub(y[following_index + 1], y[previous_index + 1])),
         x[previous_index + 1])

\* one iteration of the loop of line 70, lines 71-85
InterpolationStep(x, y, threshold) ==
    IF AlreadyIn(y, threshold)
    THEN [raised |-> FALSE, x |-> x, y |-> y]
    ELSE IF LookupRaises(x, y, threshold)
    THEN [raised |-> TRUE, x |-> x, y |-> y]
    ELSE LET previous_index == PreviousIndex(y, threshold)
             following_index == previous_index + 1
             value == InterpolatedValue(x, y, threshold, previous_index, following_index)
         IN  [raised |-> FALSE,
              x |-> Insert(x, following_index, value),
              y |-> Insert(y, following_index, threshold)]

\* the whole call, lines 70-87
RECURSIVE perform_interpolation(_, _, _)
perform_interpolation(x, y, thresholds) ==
    IF thresholds = <<>> THEN [raised |-> FALSE, x |-> x, y |-> y]
    ELSE LET r == InterpolationStep(x, y, Head(thresholds))
         IN  IF r.raised THEN r
             ELSE perform_interpolation(r.x, r.y, Tail(thresholds))

XValues == {R(0), R(1)}
YValues == {R(0), R(1), R(3)}
TargetValues == {R(0), R(1), R(2), R(4)}

InitInterp ==
    /\ pc = "interp_loop"
    /\ \E n \in 0..MaxCurveLen :
          /\ x_array \in [1..n -> XValues]
          /\ y_array \in [1..n -> YValues]
    /\ threshold_array \in SeqsUpTo(TargetValues, MaxTargets)
    /\ threshold_index = 0
    /\ call = 1
    /\ first_return = <<>>
    /\ IdleRanks /\ ranks = <<>> /\ IdleWauc /\ IdleMcc /\ IdleEval

Threshold == threshold_array[threshold_index + 1]

InLoop == pc = "interp_loop" /\ threshold_index < Len(threshold_array)

\* lines 72-73: the threshold is already in y_array
InterpSkip ==
    /\ InLoop
    /\ AlreadyIn(y_array, Threshold)
    /\ threshold_index' = threshold_index + 1
    /\ UNCHANGED <<pc, x_array, y_array, threshold_array, call, first_return, rvars, wvars, mvars, evars>>

\* lines 77-85: the lookup succeeds and a point is inserted
InterpInsert ==
    /\ InLoop
    /\ LET r == InterpolationStep(x_array, y_array, Threshold)
       IN  /\ ~AlreadyIn(y_array, Threshold)
           /\ ~r.raised
           /\ x_array' = r.x
           /\ y_array' = r.y
    /\ threshold_index' = threshold_index + 1
    /\ UNCHANGED <<pc, threshold_array, call, first_return, rvars, wvars, mvars, evars>>

\* lines 77-83: the lookup raises
InterpRaise ==
    /\ InLoop
    /\ InterpolationStep(x_array, y_array, Threshold).raised
    /\ pc' = "raised"
    /\ UNCHANGED <<x_array, y_array, threshold_array, threshold_index, call, first_return, rvars, wvars, mvars, evars>>

\* line 87: return (x_array, y_array)
InterpReturn ==
    /\ pc = "interp_loop"
    /\ threshold_index = Len(threshold_array)
    /\ pc' = "interp_done"
    /\ first_return' = IF call = 1 THEN <<x_array, y_array>> ELSE first_return
    /\ UNCHANGED <<x_array, y_array, threshold_array, threshold_index, call, rvars, wvars, mvars, evars>>

\* the caller applies perform_interpolation to what it returned, with the
\* same thresholds
InterpAgain ==
    /\ pc = "interp_done"
    /\ call = 1
    /\ call' = 2
    /\ threshold_index' = 0
    /\ pc' = "interp_loop"
    /\ UNCHANGED <<x_array, y_array, threshold_array, first_return, rvars, wvars, mvars, evars>>

NextInterp == InterpSkip \/ InterpInsert \/ InterpRaise \/ InterpReturn \/ InterpAgain

SpecInterp == InitInterp /\ [][NextInterp]_vars

-----------------------------------------------------------------------------
(* compute_Weighted_AUC, lines 89-157 *)
RECURSIVE RSum(_)
RSum(s) == IF s = <<>> THEN R(0) ELSE RAdd(Head(s), RSum(Tail(s)))

\* numpy.linspace(start, stop, num) for num >= 1
linspace(start, stop, num) ==
    IF num = 1 THEN <<start>>
    ELSE [i \in 1..num |->
            RAdd(start, RDiv(RMul(R(i - 1), RSub(stop, start)), R(num - 1)))]

\* sklearn.metrics.roc_curve(y_true, y_score), line 107, for labels in {0, 1}
\* with both classes present: one point per distinct score, taken as the
\* decision threshold in descending order; drop_intermediate (the default)
\* drops the points where neither count changes its increment; the curve is
\* made to start at (0, 0).
roc_curve(labels, scores) ==
    LET values == Range(scores)
        m == Cardinality(values)
        value_at(k) == CHOOSE v \in values : Cardinality({w \in values : RLt(v, w)}) = k - 1
        count(label, k) ==
            Cardinality({i \in 1..Len(scores) :
                            labels[i] = label /\ ~RLt(scores[i], value_at(k))})
        tps == [k \in 1..m |-> count(1, k)]
        fps == [k \in 1..m |-> count(0, k)]
        optimal_idxs ==
            {k \in 1..m : \/ k = 1 \/ k = m \/ m <= 2
                          \/ fps[k + 1] - 2 * fps[k] + fps[k - 1] # 0
                          \/ tps[k + 1] - 2 * tps[k] + tps[k - 1] # 0}
        kept == Cardinality(optimal_idxs)
        idx_at(k) == CHOOSE o \in optimal_idxs :
                        Cardinality({q \in optimal_idxs : q < o}) = k - 1
    IN  [fpr |-> <<R(0)>> \o [k \in 1..kept |-> Norm(fps[idx_at(k)], fps[m])],
         tpr |-> <<R(0)>> \o [k \in 1..kept |-> Norm(tps[idx_at(k)], tps[m])]]

\* sklearn.metrics.auc(x, y, reorder=True), line 150: the points sorted by
\* x, then y (numpy.lexsort((y, x))), then numpy.trapz(y, x)
Reordered(x, y) ==
    LET n == Len(x)
        first(j, i) ==
            \/ RLt(x[j], x[i])
            \/ x[j] = x[i] /\ RLt(y[j], y[i])
            \/ x[j] = x[i] /\ y[j] = y[i] /\ j < i
        pos == [i \in 1..n |-> Cardinality({j \in 1..n : first(j, i)})]
        at(k) == CHOOSE i \in 1..n : pos[i] = k - 1
    IN  [x |-> [k \in 1..n |-> x[at(k)]], y |-> [k \in 1..n |-> y[at(k)]]]

trapz(y, x) ==
    RSum([i \in 1..(Len(x) - 1) |->
            RDiv(RMul(RSub(x[i + 1], x[i]), RAdd(y[i + 1], y[i])), R(2))])

auc(x, y) == LET r == Reordered(x, y) IN trapz(r.y, r.x)

\* a band end that stops before the points on the band's upper boundary
HighestRecordIndex_strict(curve_tpr, high_threshold) ==
    Cardinality({i \in 1..Len(curve_tpr) : RLt(curve_tpr[i], high_threshold)}) - 1

\* line 126: highest_record_index = np.sum(tpr <= high_threshold) - 1
HighestRecordIndex(curve_tpr, high_threshold) ==
    Cardinality({i \in 1..Len(curve_tpr) : RLe(curve_tpr[i], high_threshold)}) - 1

\* a band that keeps its cumulative True Positive Rate
RemoveBias_kept(selected_tpr) == selected_tpr

\* line 133: selected_tpr = selected_tpr - selected_tpr[0]
RemoveBias(selected_tpr) ==
    [i \in 1..Len(selected_tpr) |-> RSub(selected_tpr[i], selected_tpr[1])]

\* lines 129-150 for the records lowest..highest; an empty selection makes
\* selected_tpr[0] raise IndexError
BandArea(curve_fpr, curve_tpr, lowest, highest) ==
    LET sliced_fpr == SubSeq(curve_fpr, lowest + 1, highest + 1)
        sliced_tpr == SubSeq(curve_tpr, lowest + 1, highest + 1)
    IN  IF sliced_tpr = <<>> THEN [raised |-> TRUE, area |-> R(0)]
        ELSE LET unbiased == RemoveBias(sliced_tpr)
                 selected_fpr == <<R(0)>> \o sliced_fpr \o <<R(1)>>
                 selected_tpr == <<unbiased[1]>> \o unbiased \o <<unbiased[Len(unbiased)]>>
             IN  [raised |-> FALSE, area |-> auc(selected_fpr, selected_tpr)]

\* a normalization by the sum of the weights
Normalized_by_sum(weights) ==
    [i \in 1..Len(weights) |-> RDiv(weights[i], RSum(weights))]

\* line 156: weight_distribution / np.mean(weight_distribution)
Normalized(weights) ==
    [i \in 1..Len(weights) |-> RDiv(weights[i], RDiv(RSum(weights), R(Len(weights))))]

\* line 157: np.sum(np.multiply(area_array, weight_distribution))
WeightedSum(areas, weights) ==
    RSum([i \in 1..Len(areas) |-> RMul(areas[i], Normalized(weights)[i])])

\* line 89: the default weight_distribution, np.arange(4, -1, -1.0)
DefaultWeights == <<R(4), R(3), R(2), R(1), R(0)>>

WeightValues == {R(0), R(1)}

\* the default's shape for another number of bands: np.arange(num - 1, -1, -1.0)
Ramp(num) == [i \in 1..num |-> R(num - i)]

\* weight distributions of a given shape: non-negative, not all zero (an
\* all-zero one makes line 156 divide by zero)
WeightDistributions(num) ==
    {w \in [1..num -> WeightValues] \cup {Ramp(num)} : \E i \in 1..num : w[i] # R(0)}

TwoClass(labels) == 0 \in Range(labels) /\ 1 \in Range(labels)

\* The argument weight_distribution is read for its shape on line 103 and
\* for its entries on line 156 only: the initial state fixes the shape, and
\* the entries are drawn where line 156 reads them.
InitWauc ==
    /\ pc = "wauc_curve"
    /\ \E n \in 2..MaxSamples :
          /\ y_true \in {l \in [1..n -> {0, 1}] : TwoClass(l)}
          /\ y_score \in [1..n -> ScoreValues]
    /\ weight_num \in 1..MaxBands
    /\ weight_distribution = <<>>
    /\ evenly_spaced_thresholds = <<>>
    /\ fpr = <<>> /\ tpr = <<>> /\ area_array = <<>>
    /\ lowest_record_index = 0 /\ area_index = 0 /\ result = <<>>
    /\ IdleRanks /\ ranks = <<>> /\ IdleInterp /\ threshold_array = <<>> /\ IdleMcc /\ IdleEval

\* lines 103-108 and 121-122: the thresholds, the ROC curve, its interpolation
WaucCurve ==
    /\ pc = "wauc_curve"
    /\ LET thresholds == linspace(R(0), R(1), weight_num + 1)
           roc == roc_curve(y_true, y_score)
           r == perform_interpolation(roc.fpr, roc.tpr,
                                      SubSeq(thresholds, 2, Len(thresholds) - 1))
       IN  /\ evenly_spaced_thresholds' = thresholds
           /\ IF r.raised
              THEN pc' = "raised" /\ UNCHANGED <<fpr, tpr, area_array>>
              ELSE /\ pc' = "wauc_areas"
                   /\ fpr' = r.x
                   /\ tpr' = r.y
                   /\ area_array' = [i \in 1..weight_num |-> R(0)]
    /\ UNCHANGED <<y_true, y_score, weight_distribution, weight_num,
                   lowest_record_index, area_index, result, rvars, ivars, mvars, evars>>

\* lines 123-153: one iteration of the loop over the areas
WaucArea ==
    /\ pc = "wauc_areas"
    /\ area_index < weight_num
    /\ LET high_threshold == evenly_spaced_thresholds[area_index + 2]
           highest_record_index == HighestRecordIndex(tpr, high_threshold)
           band == BandArea(fpr, tpr, lowest_record_index, highest_record_index)
       IN  IF band.raised
           THEN pc' = "raised" /\ UNCHANGED <<area_array, lowest_record_index, area_index>>
           ELSE /\ area_array' = [area_array EXCEPT ![area_index + 1] = band.area]
                /\ lowest_record_index' = highest_record_index
                /\ area_index' = area_index + 1
                /\ pc' = pc
    /\ UNCHANGED <<y_true, y_score, weight_distribution, weight_num,
                   evenly_spaced_thresholds, fpr, tpr, result, rvars, ivars, mvars, evars>>

\* lines 156-157
WaucReturn ==
    /\ pc = "wauc_areas"
    /\ area_index = weight_num
    /\ weight_distribution' \in WeightDistributions(weight_num)
    /\ result' = WeightedSum(area_array, weight_distribution')
    /\ pc' = "wauc_done"
    /\ UNCHANGED <<y_true, y_score, weight_num, evenly_spaced_thresholds, fpr, tpr,
                   area_array, lowest_record_index, area_index, rvars, ivars, mvars, evars>>

\* the whole call, for perform_evaluation; roc_curve raises ValueError when
\* the labels and the scores differ in length
compute_Weighted_AUC(labels, scores, weights) ==
    LET num == Len(weights)
        thresholds == linspace(R(0), R(1), num + 1)
        roc == roc_curve(labels, scores)
        r == perform_interpolation(roc.fpr, roc.tpr, SubSeq(thresholds, 2, num))
        highest(k) == HighestRecordIndex(r.y, thresholds[k + 1])
        lowest(k) == IF k = 1 THEN 0 ELSE highest(k - 1)
        band(k) == BandArea(r.x, r.y, lowest(k), highest(k))
    IN  IF Len(labels) # Len(scores) THEN [raised |-> TRUE, score |-> R(0)]
        ELSE IF r.raised \/ \E k \in 1..num : band(k).raised
        THEN [raised |-> TRUE, score |-> R(0)]
        ELSE [raised |-> FALSE,
              score |-> WeightedSum([k \in 1..num |-> band(k).area], weights)]

NextWauc == WaucCurve \/ WaucArea \/ WaucReturn

SpecWauc == InitWauc /\ [][NextWauc]_vars

-----------------------------------------------------------------------------
(* compute_MCC, lines 25-55 *)
Min(S) == CHOOSE m \in S : \A o \in S : m <= o

\* a/b < c/d for a, c >= 0 and b, d > 0, by continued fractions (no products)
RECURSIVE FracLess(_, _, _, _)
FracLess(a, b, c, d) ==
    IF a \div b # c \div d THEN a \div b < c \div d
    ELSE IF c % d = 0 THEN FALSE
    ELSE IF a % b = 0 THEN TRUE
    ELSE FracLess(d, c % d, b, a % b)

\* sklearn.metrics.matthews_corrcoef(y_true, y_pred), line 47, for labels in
\* {0, 1}: (TP*TN - FP*FN) / sqrt((TP+FP)(TP+FN)(TN+FP)(TN+FN)), and 0 when
\* the divisor is 0.  The value num / sqrt(den) is kept as [num, den].
matthews_corrcoef(labels, predicted) ==
    LET count(l, q) == Cardinality({i \in 1..Len(labels) : labels[i] = l /\ predicted[i] = q})
        TP == count(1, TRUE)
        TN == count(0, FALSE)
        FP == count(0, TRUE)
        FN == count(1, FALSE)
        den == ((TP + FP) * (TN + FN)) * ((TP + FN) * (TN + FP))
    IN  IF den = 0 THEN [num |-> 0, den |-> 1]
        ELSE [num |-> TP * TN - FP * FN, den |-> den]

MccLess(a, b) ==
    IF a.num < 0 /\ b.num >= 0 THEN TRUE
    ELSE IF a.num >= 0 /\ b.num < 0 THEN FALSE
    ELSE IF a.num >= 0 THEN FracLess(a.num * a.num, a.den, b.num * b.num, b.den)
    ELSE FracLess(b.num * b.num, b.den, a.num * a.num, a.den)

MccIsOne(v) == v.num > 0 /\ v.num * v.num = v.den

\* a binarization with the comparison turned around
Predicted_below(rank_array, threshold) ==
    [i \in 1..Len(rank_array) |-> RLt(R(rank_array[i]), threshold)]

\* line 47: ranks > threshold
Predicted(rank_array, threshold) ==
    [i \in 1..Len(rank_array) |-> RLt(threshold, R(rank_array[i]))]

\* line 55: np.max(MCC_array)
MaxMcc(values) == CHOOSE v \in Range(values) : \A w \in Range(values) : ~MccLess(v, w)

\* line 25: the default threshold_num
DefaultThresholdNum == 500

\* the large input: distinct scores, the one negative scored lowest
LargeTrue == [i \in 1..LargeSamples |-> IF i = 1 THEN 0 ELSE 1]
LargeScore == [i \in 1..LargeSamples |-> R(i)]

InitMcc ==
    /\ pc = "mcc_ranks"
    /\ \/ /\ \E n \in 2..MaxSamples :
                /\ y_true \in {l \in [1..n -> {0, 1}] : TwoClass(l)}
                /\ y_score \in [1..n -> ScoreValues]
          /\ threshold_num \in (1..MaxThresholdNum) \cup {DefaultThresholdNum}
       \/ /\ y_true = LargeTrue
          /\ y_score = LargeScore
          /\ threshold_num = DefaultThresholdNum
    /\ ranks = <<>> /\ threshold_array = <<>> /\ MCC_array = <<>> /\ result = <<>>
    /\ IdleRanks /\ IdleInterp /\ IdleEval
    /\ weight_distribution = <<>> /\ weight_num = 0 /\ evenly_spaced_thresholds = <<>>
    /\ fpr = <<>> /\ tpr = <<>> /\ area_array = <<>>
    /\ lowest_record_index = 0 /\ area_index = 0

mccrest == <<input_array, order, x_array, y_array, threshold_index, call, first_return,
             weight_distribution, weight_num, evenly_spaced_thresholds, fpr, tpr,
             area_array, lowest_record_index, area_index, y_true, y_score, threshold_num, evars>>

\* line 39: ranks = get_ranks(y_score)
MccRanks ==
    /\ pc = "mcc_ranks"
    /\ ranks' \in get_ranks(y_score)
    /\ pc' = "mcc_thresholds"
    /\ UNCHANGED <<threshold_array, MCC_array, result, mccrest>>

\* line 42: np.linspace(np.min(ranks) - 1, np.max(ranks) + 1, num=threshold_num)
MccThresholds ==
    /\ pc = "mcc_thresholds"
    /\ threshold_array' = linspace(R(Min(Range(ranks)) - 1), R(Max(Range(ranks)) + 1),
                                   threshold_num)
    /\ pc' = "mcc_sweep"
    /\ UNCHANGED <<ranks, MCC_array, result, mccrest>>

\* lines 45-48: the MCC at every threshold
MccSweep ==
    /\ pc = "mcc_sweep"
    /\ MCC_array' = [k \in 1..Len(threshold_array) |->
                        matthews_corrcoef(y_true, Predicted(ranks, threshold_array[k]))]
    /\ pc' = "mcc_return"
    /\ UNCHANGED <<ranks, threshold_array, result, mccrest>>

\* line 55: return np.max(MCC_array)
MccReturn ==
    /\ pc = "mcc_return"
    /\ result' = MaxMcc(MCC_array)
    /\ pc' = "mcc_done"
    /\ UNCHANGED <<ranks, threshold_array, MCC_array, mccrest>>

NextMcc == MccRanks \/ MccThresholds \/ MccSweep \/ MccReturn

SpecMcc == InitMcc /\ [][NextMcc]_vars

-----------------------------------------------------------------------------
(* perform_evaluation, lines 179-218 *)
\* A csv file of the folder: the ground truth file, a file with "Anonymous"
\* in its path, or a submission with its prediction column.  A path is a
\* number, and paths sort as numbers.
EvalLabels == {<<0, 1>>, <<1, 0>>}
SubmissionLabels ==
    {<<R(1), R(2)>>, <<R(2), R(1)>>, <<R(1), R(1)>>, <<R(1)>>}
Files ==
    {[kind |-> "groundtruth", label |-> <<>>], [kind |-> "anonymous", label |-> <<>>]}
        \cup {[kind |-> "submission", label |-> l] : l \in SubmissionLabels}

\* line 190: sorted(glob.glob(...)), the paths of the folder in ascending order
sorted(paths) ==
    [k \in 1..Cardinality(paths) |->
        CHOOSE q \in paths : Cardinality({o \in paths : o < q}) = k - 1]

\* lines 183-186: the ground truth is read
InitEval ==
    /\ pc = "eval_list"
    /\ groundtruth_label \in EvalLabels
    /\ \E n \in 0..MaxFiles :
          folder \in {f \in [1..n -> Files] :
                        Cardinality({q \in 1..n : f[q].kind = "groundtruth"}) <= 1}
    /\ submission_file_path_list = <<>>
    /\ file_index = 0 /\ submission_file_name_list = <<>> /\ score_list = <<>>
    /\ current_index = 0 /\ printed = <<>>
    /\ ranks = <<>> /\ result = <<>> /\ y_true = <<>> /\ y_score = <<>>
    /\ threshold_array = <<>>
    /\ IdleRanks /\ IdleInterp /\ IdleMcc
    /\ weight_distribution = <<>> /\ weight_num = 0 /\ evenly_spaced_thresholds = <<>>
    /\ fpr = <<>> /\ tpr = <<>> /\ area_array = <<>>
    /\ lowest_record_index = 0 /\ area_index = 0

evalrest == <<rvars_rest, ivars, wvars, mvars, folder, groundtruth_label>>

\* lines 189-192
EvalList ==
    /\ pc = "eval_list"
    /\ submission_file_path_list' = sorted(DOMAIN folder)
    /\ pc' = "eval_files"
    /\ UNCHANGED <<ranks, file_index, submission_file_name_list, score_list,
                   current_index, printed, evalrest>>

CurrentFile == folder[submission_file_path_list[file_index + 1]]

InFiles == pc = "eval_files" /\ file_index < Len(submission_file_path_list)

\* line 194
Skipped(file) == file.kind = "groundtruth" \/ file.kind = "anonymous"

\* line 202
Scored(file) == compute_Weighted_AUC(groundtruth_label, file.label, DefaultWeights)

\* lines 193-195: the ground truth file and anonymous files are passed over
EvalSkip ==
    /\ InFiles
    /\ Skipped(CurrentFile)
    /\ file_index' = file_index + 1
    /\ UNCHANGED <<pc, ranks, submission_file_path_list, submission_file_name_list,
                   score_list, current_index, printed, evalrest>>

\* lines 197-210: the submission is scored and recorded
EvalScore ==
    /\ InFiles
    /\ ~Skipped(CurrentFile)
    /\ ~Scored(CurrentFile).raised
    /\ submission_file_name_list' =
          Append(submission_file_name_list, submission_file_path_list[file_index + 1])
    /\ score_list' = Append(score_list, Scored(CurrentFile).score)
    /\ file_index' = file_index + 1
    /\ UNCHANGED <<pc, ranks, submission_file_path_list, current_index, printed, evalrest>>

\* line 202 raises: nothing in perform_evaluation catches it
EvalRaise ==
    /\ InFiles
    /\ ~Skipped(CurrentFile)
    /\ Scored(CurrentFile).raised
    /\ pc' = "raised"
    /\ UNCHANGED <<ranks, submission_file_path_list, file_index, submission_file_name_list,
                   score_list, current_index, printed, evalrest>>

\* lines 213-214: ranks = get_ranks(np.array(score_list))
EvalRanks ==
    /\ pc = "eval_files"
    /\ file_index = Len(submission_file_path_list)
    /\ ranks' \in get_ranks(score_list)
    /\ pc' = "eval_print"
    /\ UNCHANGED <<submission_file_path_list, file_index, submission_file_name_list,
                   score_list, current_index, printed, evalrest>>

\* a flag that picks the ranks from the lowest up
FlagRank_ascending(rank_array, index) == index

\* line 216: np.max(ranks) - current_index
FlagRank(rank_array, index) == Max(Range(rank_array)) - index

\* lines 215-218: one line of the ranking; [flag][0] raises IndexError when
\* no rank is flagged
EvalPrint ==
    /\ pc = "eval_print"
    /\ current_index < Len(submission_file_name_list)
    /\ LET flag == {i \in 1..Len(ranks) : ranks[i] = FlagRank(ranks, current_index)}
       IN  IF flag = {}
           THEN pc' = "raised" /\ UNCHANGED <<current_index, printed>>
           ELSE /\ printed' = Append(printed, [name |-> submission_file_name_list[Min(flag)],
                                               score |-> score_list[Min(flag)],
                                               rank |-> current_index + 1])
                /\ current_index' = current_index + 1
                /\ pc' = pc
    /\ UNCHANGED <<ranks, submission_file_path_list, file_index, submission_file_name_list,
                   score_list, evalrest>>

NextEval == EvalList \/ EvalSkip \/ EvalScore \/ EvalRaise \/ EvalRanks \/ EvalPrint

SpecEval == InitEval /\ [][NextEval]_vars

-----------------------------------------------------------------------------
(* Properties *)
NonDecreasing(y) == \A i \in 1..(Len(y) - 1) : RLe(y[i], y[i + 1])
BelowAll(y, t) == \A i \in 1..Len(y) : RLt(t, y[i])
AboveAll(y, t) == \A i \in 1..Len(y) : RLt(y[i], t)
Absent(y, t) == \A i \in 1..Len(y) : y[i] # t

\* C3: in a non-decreasing y, a threshold t that is absent from y and lies
\* strictly between min(y) and max(y) is inserted once, right before the
\* first y value exceeding t (position q), paired with the x value linearly
\* interpolated between points q - 1 and q of the current arrays; the other
\* points keep their places and y stays non-decreasing.
C3_InsertsAtBracket ==
    [][(/\ InLoop
        /\ NonDecreasing(y_array)
        /\ Absent(y_array, Threshold)
        /\ ~BelowAll(y_array, Threshold)
        /\ ~AboveAll(y_array, Threshold))
       => \E q \in 2..Len(y_array) :
            /\ RLt(Threshold, y_array[q])
            /\ \A j \in 1..(q - 1) : RLt(y_array[j], Threshold)
            /\ Len(y_array') = Len(y_array) + 1
            /\ Len(x_array') = Len(x_array) + 1
            /\ \A j \in 1..(q - 1) : y_array'[j] = y_array[j] /\ x_array'[j] = x_array[j]
            /\ \A j \in q..Len(y_array) :
                  y_array'[j + 1] = y_array[j] /\ x_array'[j + 1] = x_array[j]
            /\ y_array'[q] = Threshold
            /\ RMul(RSub(x_array'[q], x_array[q - 1]), RSub(y_array[q], y_array[q - 1]))
                 = RMul(RSub(Threshold, y_array[q - 1]), RSub(x_array[q], x_array[q - 1]))
            /\ NonDecreasing(y_array')
            /\ pc' = pc
      ]_vars

\* C3 witness: two thresholds were inserted into one gap of a non-decreasing
\* curve, the second looked up in the grown arrays (x = 1/3 and 2/3)
C3_Witness ==
    /\ pc = "interp_done" /\ call = 1
    /\ NonDecreasing(y_array)
    /\ Len(y_array) = 4
    /\ x_array = <<R(0), <<1, 3>>, <<2, 3>>, R(1)>>

\* C4: applied to its own output with the same thresholds,
\* perform_interpolation returns that output unchanged.
C4_Idempotent ==
    (pc = "interp_done" /\ call = 2) => <<x_array, y_array>> = first_return

\* C4 witness: the second call has returned, and the first call had inserted
\* a threshold
C4_Witness ==
    /\ pc = "interp_done" /\ call = 2
    /\ \E i \in 1..Len(threshold_array) :
          threshold_array[i] \notin YValues /\ AlreadyIn(y_array, threshold_array[i])

\* C5: a threshold absent from y that is below min(y), above max(y), or
\* looked up in a y that is not non-decreasing makes perform_interpolation
\* raise; it never inserts a point and carries on.
C5_RaisesWithoutBracket ==
    [][(/\ InLoop
        /\ Len(y_array) > 0
        /\ Absent(y_array, Threshold)
        /\ \/ BelowAll(y_array, Threshold)
           \/ AboveAll(y_array, Threshold)
           \/ ~NonDecreasing(y_array))
       => pc' = "raised"
      ]_vars

IsPermutation(r) == Range(r) = 0..(Len(r) - 1)

OrderPreserving(a, r) ==
    \A i, j \in 1..Len(a) : RLt(a[i], a[j]) => r[i] < r[j]

PerfectlySeparated(labels, scores) ==
    \A i, j \in 1..Len(labels) :
        (labels[i] = 1 /\ labels[j] = 0) => RLt(scores[j], scores[i])

InUnitRange(v) == RLe(R(0), v) /\ RLe(v, R(1))

PlainArea(curve) ==
    RSum([i \in 1..(Len(curve.fpr) - 1) |->
            RMul(RSub(curve.fpr[i + 1], curve.fpr[i]),
                 RDiv(RAdd(curve.tpr[i], curve.tpr[i + 1]), R(2)))])

EqualWeights(w) == \A i \in 1..Len(w) : w[i] = w[1]

\* C10: with equal weights, whatever the number of bands, the value returned
\* is the trapezoidal area under the whole ROC curve.
C10_EqualWeightsGivePlainAUC ==
    (pc = "wauc_done" /\ EqualWeights(weight_distribution))
        => result = PlainArea(roc_curve(y_true, y_score))

\* C10 witness: three equal weights on a ROC curve with a sloped segment
\* (tied scores across the classes), whose area is neither 0, 1/2 nor 1
C10_Witness ==
    /\ pc = "wauc_done"
    /\ weight_num = 3
    /\ EqualWeights(weight_distribution)
    /\ \E i, j \in 1..Len(y_true) : y_true[i] # y_true[j] /\ y_score[i] = y_score[j]
    /\ result \notin {R(0), <<1, 2>>, R(1)}

\* the grid of thresholds is at most 1 apart: (n + 1) / (threshold_num - 1) <= 1
SpacingAtMostOne == threshold_num >= 2 /\ Len(y_true) + 1 <= threshold_num - 1

\* C7 as stated: on perfectly separable two-class input compute_MCC returns
\* 1 with the default threshold_num, and with every threshold_num whose grid
\* spacing is at most 1.
C7_DefaultOrFineGridGivesOne ==
    (/\ pc = "mcc_done"
     /\ PerfectlySeparated(y_true, y_score)
     /\ threshold_num = DefaultThresholdNum \/ SpacingAtMostOne)
        => MccIsOne(result)

\* C7 amended: on perfectly separable two-class input compute_MCC returns 1
\* with every threshold_num, the default included, whose grid spacing is at
\* most 1.
C7_FineGridGivesOne ==
    (/\ pc = "mcc_done"
     /\ PerfectlySeparated(y_true, y_score)
     /\ SpacingAtMostOne)
        => MccIsOne(result)

\* C7 witness: perfectly separable input with tied scores, on the coarsest
\* grid the amended claim covers (spacing exactly 1)
C7_Witness ==
    /\ pc = "mcc_done"
    /\ PerfectlySeparated(y_true, y_score)
    /\ Len(y_true) = 3
    /\ threshold_num = Len(y_true) + 2
    /\ \E i, j \in 1..Len(y_score) : i # j /\ y_score[i] = y_score[j]
    /\ MccIsOne(result)

\* perform_evaluation has run to its end
EvalFinished == pc = "eval_print" /\ current_index = Len(submission_file_name_list)

\* C8: perform_evaluation prints one line per scored submission, with the
\* ranks 1..n in order, each submission once and with its own score, the
\* scores never increasing down the list.
C8_RankingIsDescending ==
    EvalFinished =>
        /\ Len(printed) = Len(score_list)
        /\ \A k \in 1..Len(printed) : printed[k].rank = k
        /\ \A i \in 1..Len(score_list) :
              Cardinality({k \in 1..Len(printed) :
                              /\ printed[k].name = submission_file_name_list[i]
                              /\ printed[k].score = score_list[i]}) = 1
        /\ \A k \in 1..(Len(printed) - 1) : RLe(printed[k + 1].score, printed[k].score)

\* C8 witness: three submissions ranked, two of them with the same score
C8_Witness ==
    /\ EvalFinished
    /\ Len(printed) = 3
    /\ printed[1].score # printed[2].score
    /\ printed[2].score = printed[3].score

\* C9: a submission whose scoring fails does not keep the submissions after
\* it from being scored and ranked.
C9_FailureDoesNotStopEvaluation ==
    (EvalFinished \/ pc = "raised") =>
        \A i, j \in 1..Len(submission_file_path_list) :
            LET failing == folder[submission_file_path_list[i]]
                later == folder[submission_file_path_list[j]]
            IN  (/\ i < j
                 /\ ~Skipped(failing) /\ Scored(failing).raised
                 /\ ~Skipped(later) /\ ~Scored(later).raised)
                    => \E k \in 1..Len(printed) :
                          printed[k].name = submission_file_path_list[j]

=============================================================================
